---- MODULE Spec2Model ----
(***************************************************************************)
(* hikari.py: index kanji compounds by shared component kanji.             *)
(*                                                                         *)
(* A character is its code point (a natural number), a str is a sequence   *)
(* of code points, an Optional[str] is a sequence of zero or one str, and  *)
(* a Python dict is a record [keys, val]: keys is the insertion order of   *)
(* the keys and val the mapping itself.                                    *)
(***************************************************************************)
EXTENDS Integers, Sequences, FiniteSets, TLC

VARIABLES pc, delimiter, from_jpdb, file, file_read, words, components,
          related_words, accumulated, removed, output, exit_status

vars == <<pc, delimiter, from_jpdb, file, file_read, words, components,
          related_words, accumulated, removed, output, exit_status>>

----------------------------------------------------------------------------
(* Bounds of the explored inputs *)

MaxWords == 2

MaxWordLen == 2

(* 今 (U+4ECA), 朝 (U+671D) and か (U+304B) *)
Alphabet == {20170, 26397, 12363}

Strings == UNION {[1..n -> Alphabet] : n \in 0..MaxWordLen}

(* "今朝 今晩 朝食 食べる 楽しい かな english!", the example of the docstring *)
Scenario ==
    << <<20170, 26397>>, <<20170, 26217>>, <<26397, 39135>>,
       <<39135, 12409, 12427>>, <<27005, 12375, 12356>>,
       <<12363, 12394>>, <<101, 110, 103, 108, 105, 115, 104, 33>> >>

(* one-character words on both sides of both ends of the range 一-龯 *)
Boundary == << <<19967>>, <<19968>>, <<40879>>, <<40880>> >>

(* the word lists handed to the core, and the token lists of an input file *)
Inputs == UNION {[1..n -> Strings] : n \in 0..MaxWords} \cup {Scenario, Boundary}

None == <<>>

Some(s) == <<s>>

(* no delimiter, "", ",", "今", ",か", "ン" (U+30F3) and "ヴ" (U+30F4) *)
Delimiters ==
    {None, Some(<<>>), Some(<<44>>), Some(<<20170>>), Some(<<44, 12363>>),
     Some(<<12531>>), Some(<<12532>>)}

(* an export with the array of cards (their spellings), or one without it; *)
(* for a text file, tokens is what text.split(delimiter) returns           *)
Files ==
    {[cards |-> TRUE, tokens |-> t] : t \in Inputs}
        \cup {[cards |-> FALSE, tokens |-> <<>>]}

----------------------------------------------------------------------------
(* Python built-ins *)

EmptyDict == [keys |-> <<>>, val |-> [k \in {} |-> {}]]

Range(s) == {s[i] : i \in 1..Len(s)}

(* Python finishes a statement before it runs the next one: the value a     *)
(* loop iteration leaves behind is computed before the next iteration       *)
(* starts, never deferred to the end of the loop                            *)
evaluated(v) == v = v

(* str < str: code point by code point, a proper prefix is smaller *)
RECURSIVE LexLess(_, _)
LexLess(a, b) ==
    IF b = <<>> THEN FALSE
    ELSE IF a = <<>> THEN TRUE
    ELSE IF a[1] # b[1] THEN a[1] < b[1]
    ELSE LexLess(Tail(a), Tail(b))

(* k in w, for strs *)
IsSubstring(k, w) ==
    \E i \in 0..(Len(w) - Len(k)) : SubSeq(w, i + 1, i + Len(k)) = k

(* w put into the ascending list s, after the elements not greater than w *)
Insert(s, w) ==
    LET n == Cardinality({i \in 1..Len(s) : ~LexLess(w, s[i])})
    IN  SubSeq(s, 1, n) \o <<w>> \o SubSeq(s, n + 1, Len(s))

(* list.sort(reverse=True) *)
RECURSIVE list_sort_reverse(_)
list_sort_reverse(s) ==
    IF s = <<>> THEN <<>>
    ELSE LET m == CHOOSE i \in 1..Len(s) :
                      \A j \in 1..Len(s) : ~LexLess(s[i], s[j])
         IN  <<s[m]>> \o list_sort_reverse(
                 SubSeq(s, 1, m - 1) \o SubSeq(s, m + 1, Len(s)))

(* the list is left as it is *)
list_sort_skipped(s) == s

(* the elements of s from the i-th on, put one by one into the ascending   *)
(* list done                                                               *)
RECURSIVE sort_loop(_, _, _)
sort_loop(done, s, i) ==
    IF i > Len(s) THEN done
    ELSE LET next == Insert(done, s[i]) IN
         CASE evaluated(next) -> sort_loop(next, s, i + 1)

(* list.sort() *)
list_sort(s) == sort_loop(<<>>, s, 1)

(* list(a_set): the elements in some order *)
RECURSIVE list(_)
list(S) ==
    IF S = {} THEN <<>>
    ELSE LET x == CHOOSE y \in S : TRUE IN <<x>> \o list(S \ {x})

sorted(s) == list_sort(s)

----------------------------------------------------------------------------
(* The regular expressions *)

KanjiFirst == 19968

KanjiLast == 40879

HiraganaFirst == 12353

HiraganaLast == 12435

KatakanaFirst == 12449

KatakanaLast == 12531

(* the range stops at U+9FA5 *)
search_kanji_9fa5(word) ==
    \E i \in 1..Len(word) : word[i] >= KanjiFirst /\ word[i] <= 40869

(* re.search(r"[一-龯]", word) *)
search_kanji(word) ==
    \E i \in 1..Len(word) : word[i] >= KanjiFirst /\ word[i] <= KanjiLast

(* re.search(r"[一-龯ぁ-んァ-ン]", delimiter) *)
search_japanese(s) ==
    \E i \in 1..Len(s) :
        \/ s[i] >= KanjiFirst /\ s[i] <= KanjiLast
        \/ s[i] >= HiraganaFirst /\ s[i] <= HiraganaLast
        \/ s[i] >= KatakanaFirst /\ s[i] <= KatakanaLast

has_kanji(word) == word # <<>> /\ search_kanji(word)

----------------------------------------------------------------------------
(* separate_words *)

(* components[char].add(word) on a defaultdict(set) *)
add_word(comp, char, word) ==
    IF char \in Range(comp.keys)
    THEN [comp EXCEPT !.val[char] = @ \cup {word}]
    ELSE [keys |-> Append(comp.keys, char),
          val |-> [k \in DOMAIN comp.val \cup {char} |->
                      IF k = char THEN {word} ELSE comp.val[k]]]

(* for char in word, from the j-th character on *)
RECURSIVE separate_chars(_, _, _)
separate_chars(comp, word, j) ==
    IF j > Len(word) THEN comp
    ELSE IF ~has_kanji(<<word[j]>>) THEN separate_chars(comp, word, j + 1)
    ELSE LET next == add_word(comp, <<word[j]>>, word) IN
         CASE evaluated(next) -> separate_chars(next, word, j + 1)

(* for word in words, from the i-th word on *)
RECURSIVE separate_loop(_, _, _)
separate_loop(comp, ws, i) ==
    IF i > Len(ws) THEN comp
    ELSE LET next == separate_chars(comp, ws[i], 1) IN
         CASE evaluated(next) -> separate_loop(next, ws, i + 1)

separate_words(ws) == separate_loop(EmptyDict, ws, 1)

----------------------------------------------------------------------------
(* relate_words *)

(* {word: set() for word in words} *)
RECURSIVE init_related(_, _, _)
init_related(rel, ws, i) ==
    IF i > Len(ws) THEN rel
    ELSE LET next ==
                 IF ws[i] \in Range(rel.keys)
                 THEN [rel EXCEPT !.val[ws[i]] = {}]
                 ELSE [keys |-> Append(rel.keys, ws[i]),
                       val |-> [k \in DOMAIN rel.val \cup {ws[i]} |->
                                   IF k = ws[i] THEN {} ELSE rel.val[k]]]
         IN  CASE evaluated(next) -> init_related(next, ws, i + 1)

(* the test is word.startswith(kanji) *)
RECURSIVE scan_components_prefix(_, _, _, _)
scan_components_prefix(rel, word, comp, k) ==
    IF k > Len(comp.keys) THEN rel
    ELSE LET kanji == comp.keys[k]
             compounds == comp.val[kanji]
             next == [rel EXCEPT !.val[word] = @ \cup compounds]
         IN  IF ~(word # <<>> /\ <<word[1]>> = kanji)
             THEN scan_components_prefix(rel, word, comp, k + 1)
             ELSE CASE evaluated(next) ->
                      scan_components_prefix(next, word, comp, k + 1)

(* the loop breaks after the first component found in the word *)
RECURSIVE scan_components_break(_, _, _, _)
scan_components_break(rel, word, comp, k) ==
    IF k > Len(comp.keys) THEN rel
    ELSE LET kanji == comp.keys[k] IN
         IF ~IsSubstring(kanji, word)
         THEN scan_components_break(rel, word, comp, k + 1)
         ELSE [rel EXCEPT !.val[word] = @ \cup comp.val[kanji]]

(* for kanji, compounds in components.items(), from the k-th item on *)
RECURSIVE scan_components(_, _, _, _)
scan_components(rel, word, comp, k) ==
    IF k > Len(comp.keys) THEN rel
    ELSE LET kanji == comp.keys[k]
             compounds == comp.val[kanji]
             next == [rel EXCEPT !.val[word] = @ \cup compounds]
         IN  IF ~IsSubstring(kanji, word)
             THEN scan_components(rel, word, comp, k + 1)
             ELSE CASE evaluated(next) ->
                      scan_components(next, word, comp, k + 1)

(* for word in words, from the i-th word on *)
RECURSIVE accumulate(_, _, _, _)
accumulate(rel, ws, comp, i) ==
    IF i > Len(ws) THEN rel
    ELSE LET next == scan_components(rel, ws[i], comp, 1) IN
         CASE evaluated(next) -> accumulate(next, ws, comp, i + 1)

(* the self-link is left in place *)
remove_self_skipped(rel, order, i, done) ==
    [raised |-> FALSE, dict |-> rel, removed |-> done]

(* for word, rel_words in related_words.items(): rel_words.remove(word),   *)
(* from the i-th item of order on; set.remove raises KeyError when the     *)
(* element is absent                                                       *)
RECURSIVE remove_self(_, _, _, _)
remove_self(rel, order, i, done) ==
    IF i > Len(order) THEN [raised |-> FALSE, dict |-> rel, removed |-> done]
    ELSE LET word == order[i] IN
         IF word \notin rel.val[word]
         THEN [raised |-> TRUE, dict |-> rel, removed |-> done]
         ELSE LET next == [rel EXCEPT !.val[word] = @ \ {word}] IN
              CASE evaluated(next) /\ evaluated(done) ->
                  remove_self(next, order, i + 1, Append(done, word))

(* words without related words are dropped from the result *)
relate_words_drop_empty(ws, comp) ==
    LET acc == accumulate(init_related(EmptyDict, ws, 1), ws, comp, 1)
        res == remove_self(acc, acc.keys, 1, <<>>)
        kept == {k \in DOMAIN res.dict.val : res.dict.val[k] # {}}
        RECURSIVE keep(_)
        keep(s) == IF s = <<>> THEN <<>>
                   ELSE (IF s[1] \in kept THEN <<s[1]>> ELSE <<>>)
                            \o keep(Tail(s))
    IN  [raised |-> res.raised, accumulated |-> acc,
         related_words |-> [keys |-> keep(res.dict.keys),
                            val |-> [k \in kept |-> res.dict.val[k]]],
         removed |-> res.removed]

(* the removal loop runs over words, once per occurrence *)
relate_words_per_occurrence(ws, comp) ==
    LET acc == accumulate(init_related(EmptyDict, ws, 1), ws, comp, 1)
        res == remove_self(acc, ws, 1, <<>>)
    IN  [raised |-> res.raised, accumulated |-> acc,
         related_words |-> res.dict, removed |-> res.removed]

(* the dict as it is when the removal loop starts, and the outcome of the  *)
(* call: the dict returned (or left behind by a KeyError) and the keys     *)
(* whose self-link was removed, in order                                   *)
relate_words(ws, comp) ==
    LET acc == accumulate(init_related(EmptyDict, ws, 1), ws, comp, 1)
        res == remove_self(acc, acc.keys, 1, <<>>)
    IN  [raised |-> res.raised, accumulated |-> acc,
         related_words |-> res.dict, removed |-> res.removed]

----------------------------------------------------------------------------
(* The recommended relation strategy: for each word, look its distinct     *)
(* logographic characters up in the component index, union the results     *)
(* and remove the word if present                                          *)

(* for each character of word, from the j-th on; seen holds the            *)
(* characters already looked up                                            *)
RECURSIVE lookup_chars(_, _, _, _, _)
lookup_chars(found, seen, word, comp, j) ==
    IF j > Len(word) THEN found
    ELSE LET c == word[j] IN
         IF c \in seen \/ ~(c >= 19968 /\ c <= 40879)
         THEN lookup_chars(found, seen, word, comp, j + 1)
         ELSE LET next == found \cup (IF <<c>> \in DOMAIN comp.val
                                      THEN comp.val[<<c>>] ELSE {})
              IN  CASE evaluated(next) ->
                      lookup_chars(next, seen \cup {c}, word, comp, j + 1)

RECURSIVE relate_direct_loop(_, _, _, _)
relate_direct_loop(rel, ws, comp, i) ==
    IF i > Len(ws) THEN rel
    ELSE LET word == ws[i]
             others == lookup_chars({}, {}, word, comp, 1) \ {word}
             next ==
                 IF word \in Range(rel.keys)
                 THEN [rel EXCEPT !.val[word] = others]
                 ELSE [keys |-> Append(rel.keys, word),
                       val |-> [k \in DOMAIN rel.val \cup {word} |->
                                   IF k = word THEN others ELSE rel.val[k]]]
         IN  CASE evaluated(next) -> relate_direct_loop(next, ws, comp, i + 1)

relate_words_direct(ws, comp) == relate_direct_loop(EmptyDict, ws, comp, 1)

----------------------------------------------------------------------------
(* main and its collaborators *)

(* {k: sorted(list(w)) for k, w in d.items()} *)
normalize(d) ==
    [keys |-> d.keys, val |-> [k \in DOMAIN d.val |-> sorted(list(d.val[k]))]]

(* words = [w for w in words if has_kanji(w)] *)
RECURSIVE kanji_words(_)
kanji_words(tokens) ==
    IF tokens = <<>> THEN <<>>
    ELSE (IF has_kanji(tokens[1]) THEN <<tokens[1]>> ELSE <<>>)
             \o kanji_words(Tail(tokens))

(* what main hands to save_to_json for the tokens of its input file *)
main_result(tokens) ==
    LET ws == list_sort(kanji_words(tokens))
        comp == separate_words(ws)
        rel == relate_words(ws, comp).related_words
    IN  [components |-> normalize(comp), related_words |-> normalize(rel)]

Init ==
    /\ pc = "main"
    /\ delimiter \in Delimiters
    /\ from_jpdb \in BOOLEAN
    /\ file \in Files
    /\ file_read = FALSE
    /\ words = <<>>
    /\ components = EmptyDict
    /\ related_words = EmptyDict
    /\ accumulated = EmptyDict
    /\ removed = <<>>
    /\ output = None
    /\ exit_status = 0

(* if delimiter and re.search(...): sys.exit(2) *)
CheckDelimiter ==
    /\ pc = "main"
    /\ IF delimiter # None /\ delimiter[1] # <<>> /\ search_japanese(delimiter[1])
       THEN pc' = "exit" /\ exit_status' = 2
       ELSE pc' = "read" /\ exit_status' = exit_status
    /\ UNCHANGED <<delimiter, from_jpdb, file, file_read, words, components,
                   related_words, accumulated, removed, output>>

(* text.split("") raises ValueError: empty separator *)
read_from_txt ==
    /\ pc = "read"
    /\ ~from_jpdb
    /\ file_read' = TRUE
    /\ IF delimiter = Some(<<>>)
       THEN pc' = "raised" /\ exit_status' = 1 /\ words' = words
       ELSE /\ pc' = "sort"
            /\ exit_status' = exit_status
            /\ words' = kanji_words(file.tokens)
    /\ UNCHANGED <<delimiter, from_jpdb, file, components, related_words,
                   accumulated, removed, output>>

(* sys.exit(data.keys()) when the array of cards is missing *)
read_from_jpdb ==
    /\ pc = "read"
    /\ from_jpdb
    /\ file_read' = TRUE
    /\ IF ~file.cards
       THEN pc' = "exit" /\ exit_status' = 1 /\ words' = words
       ELSE /\ pc' = "sort"
            /\ exit_status' = exit_status
            /\ words' = kanji_words(file.tokens)
    /\ UNCHANGED <<delimiter, from_jpdb, file, components, related_words,
                   accumulated, removed, output>>

SortWords ==
    /\ pc = "sort"
    /\ words' = list_sort(words)
    /\ pc' = "separate"
    /\ UNCHANGED <<delimiter, from_jpdb, file, file_read, components,
                   related_words, accumulated, removed, output, exit_status>>

SeparateWords ==
    /\ pc = "separate"
    /\ components' = separate_words(words)
    /\ pc' = "relate"
    /\ UNCHANGED <<delimiter, from_jpdb, file, file_read, words,
                   related_words, accumulated, removed, output, exit_status>>

RelateWords ==
    /\ pc = "relate"
    /\ LET r == relate_words(words, components) IN
        /\ related_words' = r.related_words
        /\ accumulated' = r.accumulated
        /\ removed' = r.removed
        /\ IF r.raised
           THEN pc' = "raised" /\ exit_status' = 1
           ELSE pc' = "normalize" /\ exit_status' = exit_status
    /\ UNCHANGED <<delimiter, from_jpdb, file, file_read, words, components,
                   output>>

Normalize ==
    /\ pc = "normalize"
    /\ components' = normalize(components)
    /\ related_words' = normalize(related_words)
    /\ pc' = "save"
    /\ UNCHANGED <<delimiter, from_jpdb, file, file_read, words, accumulated,
                   removed, output, exit_status>>

save_to_json ==
    /\ pc = "save"
    /\ output' = Some([components |-> components,
                       related_words |-> related_words])
    /\ pc' = "done"
    /\ UNCHANGED <<delimiter, from_jpdb, file, file_read, words, components,
                   related_words, accumulated, removed, exit_status>>

Next ==
    \/ CheckDelimiter
    \/ read_from_txt
    \/ read_from_jpdb
    \/ SortWords
    \/ SeparateWords
    \/ RelateWords
    \/ Normalize
    \/ save_to_json

Spec == Init /\ [][Next]_vars

----------------------------------------------------------------------------
(* The core called directly on any sequence of strings *)

InitCore ==
    /\ pc = "separate_words"
    /\ delimiter = None
    /\ from_jpdb = FALSE
    /\ file = [cards |-> FALSE, tokens |-> <<>>]
    /\ file_read = FALSE
    /\ words \in Inputs
    /\ components = EmptyDict
    /\ related_words = EmptyDict
    /\ accumulated = EmptyDict
    /\ removed = <<>>
    /\ output = None
    /\ exit_status = 0

CallSeparateWords ==
    /\ pc = "separate_words"
    /\ components' = separate_words(words)
    /\ pc' = "relate_words"
    /\ UNCHANGED <<delimiter, from_jpdb, file, file_read, words,
                   related_words, accumulated, removed, output, exit_status>>

CallRelateWords ==
    /\ pc = "relate_words"
    /\ LET r == relate_words(words, components) IN
        /\ related_words' = r.related_words
        /\ accumulated' = r.accumulated
        /\ removed' = r.removed
        /\ pc' = IF r.raised THEN "KeyError" ELSE "returned"
    /\ UNCHANGED <<delimiter, from_jpdb, file, file_read, words, components,
                   output, exit_status>>

NextCore == CallSeparateWords \/ CallRelateWords

SpecCore == InitCore /\ [][NextCore]_vars

----------------------------------------------------------------------------
(* Vocabulary of the properties *)

(* a logographic character: code point in U+4E00..U+9FAF *)
IsLogographic(c) == c >= 19968 /\ c <= 40879

LogographicChars(w) == {c \in Range(w) : IsLogographic(c)}

HasLogographic(w) == LogographicChars(w) # {}

AllLogographic(ws) == \A w \in Range(ws) : HasLogographic(w)

Keys(d) == DOMAIN d.val

(* d.get(k, set()) *)
Lookup(d, k) == IF k \in Keys(d) THEN d.val[k] ELSE {}

WellFormedDict(d) ==
    /\ Range(d.keys) = Keys(d)
    /\ \A i, j \in 1..Len(d.keys) : d.keys[i] = d.keys[j] => i = j

CoreReturned == pc = "returned"

CoreFinished == pc \in {"returned", "KeyError"}

----------------------------------------------------------------------------
(* C1: when every input word has a logographic character, relate_words     *)
(* returns, and for every input word w, R[w] is the union of CI[c] over    *)
(* the logographic characters c of w, minus w; w is never in R[w].         *)
C1_RelationIsUnionMinusSelf ==
    (CoreFinished /\ AllLogographic(words)) =>
        /\ CoreReturned
        /\ \A w \in Range(words) :
            /\ w \in Keys(related_words)
            /\ Lookup(related_words, w) =
                   UNION {Lookup(components, <<c>>) : c \in LogographicChars(w)}
                       \ {w}
            /\ w \notin Lookup(related_words, w)

C1_Witness ==
    /\ CoreReturned
    /\ AllLogographic(words)
    /\ \E w \in Range(words) :
        /\ Cardinality(LogographicChars(w)) = 2
        /\ Lookup(related_words, w) # {}

C2_BoundaryWitness ==
    /\ pc # "separate_words"
    /\ words = Boundary
    /\ Keys(components) = {<<19968>>, <<40879>>}

(* C3: when every input word has a logographic character, the keys of the  *)
(* mapping returned by relate_words are exactly the distinct input words,  *)
(* each once, and a word sharing no character with another word is a key   *)
(* mapped to the empty set.                                                *)
C3_DomainIsInputWords ==
    (CoreFinished /\ AllLogographic(words)) =>
        /\ CoreReturned
        /\ WellFormedDict(related_words)
        /\ Keys(related_words) = Range(words)
        /\ \A w \in Range(words) :
            (\A v \in Range(words) \ {w} :
                 LogographicChars(v) \cap LogographicChars(w) = {})
                => Lookup(related_words, w) = {} /\ w \in Keys(related_words)

C3_Witness ==
    /\ CoreReturned
    /\ AllLogographic(words)
    /\ Len(words) = 2
    /\ words[1] # words[2]
    /\ Lookup(related_words, words[1]) = {}
    /\ Keys(related_words) = {words[1], words[2]}

C3_RepeatedWordWitness ==
    /\ CoreReturned
    /\ AllLogographic(words)
    /\ Len(words) = 2
    /\ words[1] = words[2]
    /\ Len(related_words.keys) = 1

(* C5: separate_words followed by relate_words completes without raising   *)
(* for every sequence of strings; removing an absent word is a no-op.      *)
C5_CoreNeverRaises == pc # "KeyError"

(* C6: for two distinct input words of a logographic-bearing input that    *)
(* share a logographic character, each is in the other's related set; and  *)
(* y is in R[x] iff x is in R[y].                                          *)
C6_RelationSymmetric ==
    (CoreFinished /\ AllLogographic(words)) =>
        /\ CoreReturned
        /\ \A x, y \in Range(words) :
            /\ (x # y /\ LogographicChars(x) \cap LogographicChars(y) # {})
                   => (y \in Lookup(related_words, x)
                       /\ x \in Lookup(related_words, y))
            /\ y \in Lookup(related_words, x) <=> x \in Lookup(related_words, y)

C6_Witness ==
    /\ CoreReturned
    /\ AllLogographic(words)
    /\ \E x, y \in Range(words) :
        /\ x # y
        /\ Len(x) # Len(y)
        /\ y \in Lookup(related_words, x)
        /\ x \in Lookup(related_words, y)

(* C10: when every word has a kanji, the self-removal never raises, also   *)
(* with repeated words: when the removal loop starts every key is in its   *)
(* own set, and every key is removed from its own set exactly once.        *)
C10_SelfRemovalNeverRaises ==
    (CoreFinished /\ AllLogographic(words)) =>
        /\ CoreReturned
        /\ \A w \in Keys(accumulated) : w \in accumulated.val[w]
        /\ Keys(accumulated) = Keys(related_words)
        /\ \A w \in Keys(related_words) :
               Cardinality({i \in 1..Len(removed) : removed[i] = w}) = 1
        /\ Range(removed) = Keys(related_words)

C10_Witness ==
    /\ CoreReturned
    /\ AllLogographic(words)
    /\ Len(words) = 2
    /\ words[1] = words[2]
    /\ removed = <<words[1]>>
    /\ accumulated.val[words[1]] = {words[1]}

(* C8: for a logographic-bearing input, scanning every key of CI for each  *)
(* word (relate_words) yields the same mapping as looking up each word's   *)
(* distinct logographic characters directly in CI.                         *)
C8_StrategiesAgree ==
    (CoreFinished /\ AllLogographic(words)) =>
        /\ CoreReturned
        /\ related_words.val = relate_words_direct(words, components).val
        /\ Range(related_words.keys)
               = Range(relate_words_direct(words, components).keys)

C8_Witness ==
    /\ CoreReturned
    /\ AllLogographic(words)
    /\ \E w \in Range(words) :
        /\ \E i, j \in 1..Len(w) : i # j /\ w[i] = w[j] /\ IsLogographic(w[i])
        /\ relate_words_direct(words, components).val[w] # {}

----------------------------------------------------------------------------
(* Properties of main *)

MainDone == pc = "done"

Kesa == <<20170, 26397>>

Konban == <<20170, 26217>>

Choushoku == <<26397, 39135>>

Taberu == <<39135, 12409, 12427>>

Tanoshii == <<27005, 12375, 12356>>

ScenarioRelatedWords ==
    (Konban :> <<Kesa>>) @@ (Kesa :> <<Konban, Choushoku>>)
        @@ (Choushoku :> <<Kesa, Taberu>>) @@ (Taberu :> <<Choushoku>>)
        @@ (Tanoshii :> <<>>)

(* "朝": ["今晩", "朝食"] *)
ScenarioComponentsAsStated ==
    (<<20170>> :> <<Konban, Kesa>>) @@ (<<26397>> :> <<Konban, Choushoku>>)
        @@ (<<26217>> :> <<Konban>>) @@ (<<39135>> :> <<Choushoku, Taberu>>)
        @@ (<<27005>> :> <<Tanoshii>>)

(* "朝": ["今朝", "朝食"] *)
ScenarioComponentsAmended ==
    (<<20170>> :> <<Konban, Kesa>>) @@ (<<26397>> :> <<Kesa, Choushoku>>)
        @@ (<<26217>> :> <<Konban>>) @@ (<<39135>> :> <<Choushoku, Taberu>>)
        @@ (<<27005>> :> <<Tanoshii>>)

StrictlyAscending(s) == \A i \in 1..(Len(s) - 1) : LexLess(s[i], s[i + 1])

RECURSIVE Reverse(_)
Reverse(s) == IF s = <<>> THEN <<>> ELSE Append(Reverse(Tail(s)), s[1])

(* one fixed enumeration of the distinct logographic-bearing words *)
CanonicalInput(tokens) == list({w \in Range(tokens) : HasLogographic(w)})

IsKana(c) == c >= 12352 /\ c <= 12543

DelimiterIsJapanese ==
    /\ delimiter # None
    /\ \E i \in 1..Len(delimiter[1]) :
           IsLogographic(delimiter[1][i]) \/ IsKana(delimiter[1][i])

(* C9: a delimiter with a logographic or kana character makes main exit    *)
(* with status 2 before the input file is read, nothing built or written;  *)
(* no other delimiter is rejected that way.                                *)
C9_JapaneseDelimiterRejected ==
    /\ (DelimiterIsJapanese /\ pc # "main") =>
           /\ pc = "exit"
           /\ exit_status = 2
           /\ ~file_read
           /\ components = EmptyDict
           /\ related_words = EmptyDict
           /\ output = None
    /\ ~DelimiterIsJapanese => ~(pc = "exit" /\ exit_status = 2)

====
